---- MODULE Spec2Model ----
(***************************************************************************)
(* CraterBidiSession (scripts/crater_bidi_adapter.py): the WebDriver BiDi  *)
(* session multiplexer.  One action per operation of the class, split at   *)
(* the await points where the asyncio scheduler can run another task.      *)
(***************************************************************************)
EXTENDS Integers, Sequences, FiniteSets, TLC

\* ---------------------------------------------------------------- bounds
MaxCalls == 3       \* start, send_command and add_event_listener calls explored
MaxTokenCalls == 2  \* calls of one removal token explored
MaxSends == 2       \* BidiTester.send calls explored
MaxQueue == 2       \* events one BidiTester receives
MaxSubs == 2        \* _subscribe calls of one subscribe_events fixture
MaxNameLen == 3     \* characters of a keyword option name
MaxOptions == 2     \* keyword options of one ScriptModule call

\* ------------------------------------------------------------ input sets
NoId == 0 - 1                       \* the message has no "id" key
NoMethod == "<absent>"              \* the message has no "method" key
Payloads == {"p1", "p2"}            \* result / error / params payloads
EventNames == {"log.entryAdded"}    \* names handlers are registered for
WireMethods == EventNames \cup {"network.responseCompleted"}
HandlerOrder == <<"H1", "H2", "H3">>  \* Hn: the n-th distinct handler registered
Handlers == {HandlerOrder[n] : n \in 1..Len(HandlerOrder)}
ConnectionClosedError == "ConnectionClosed"
HandlerExits == {"returned", "Exception"}  \* how an awaited handler ends

CmdIds == 1..MaxCalls
TaskIds == 1..MaxCalls

\* json.loads(message): the keys _receive_messages reads
Responses == [id : CmdIds, type : {"success", "error"}, body : Payloads,
              method : {NoMethod}]
\* a response that carries a "method" key as well, one handlers are registered for
TaggedResponses == [id : CmdIds, type : {"success"}, body : {"p1"},
                    method : EventNames]
Events == [id : {NoId}, type : {"event"}, body : Payloads,
           method : WireMethods]
Malformed == [id : {NoId}, type : {"event"}, body : {"p1"},
              method : {NoMethod}]
Messages == Responses \cup Events \cup Malformed
NoMsg == [id |-> NoId, type |-> "none", body |-> "none", method |-> NoMethod]

VARIABLES
    ws,               \* self._ws: 0 is None, k is the k-th connection
    command_id,       \* self._command_id
    pending,          \* keys of self._pending_commands (the future of key i is futures[i])
    futures,          \* the asyncio futures created by send_command, by identifier
    event_listeners,  \* self._event_listeners: event name -> list of handlers
    receive_task,     \* self._receive_task: 0 is None, k is the k-th task
    event_loop,       \* self.event_loop is set
    conns,            \* state of each websocket connection
    tasks,            \* each _receive_messages task: position and locals
    endpc,            \* position of the running end() call
    endTask,          \* the task object end() awaits
    tokens,           \* the remove closures returned by add_event_listener
    last,             \* history: what the step into this state did with the message it read
    raised,           \* history: what the handler the step into this state resumed from raised
    issued,           \* history: identifiers in the order send_command assigned them
    sendLog,          \* history: how the send_command call of each identifier ended
    atClose,          \* history: identifiers unresolved in the table when a loop ended by closure
    waits,            \* the futures handed out by the wait_for_event fixture, in call order
    subs,             \* the subscribe_events fixture: its list and its teardown
    script,           \* one ScriptModule.evaluate / call_function call: kwargs and params
    tester            \* a BidiTester of test-bidi-manual.py: its fields and its send() call

\* the session, and what lives apart from it
session == <<ws, command_id, pending, futures, event_listeners, receive_task,
             event_loop, conns, tasks, endpc, endTask, tokens, last, raised,
             issued, sendLog, atClose, waits>>
apart == <<tester, subs, script>>
vars == <<session, apart>>

NoFuture == [state |-> "none", value |-> "none"]
NewFuture == [state |-> "pending", value |-> "none"]
NoRouting == [kind |-> "none", id |-> NoId, method |-> NoMethod]
NoTask == [pc |-> "unborn", exit |-> "none", cancelReq |-> FALSE,
           data |-> NoMsg, idx |-> 0, snapshot |-> <<>>, invoked |-> <<>>]
NoSend == [outcome |-> "none", at |-> "none", phase |-> "none"]

\* history: the message a loop has just read (its "id" and "method" keys) and
\* how it was routed; NoRouting after a step that read none
Routed(kind, msg) == [kind |-> kind, id |-> msg.id, method |-> msg.method]

\* BidiTester.__init__ (test-bidi-manual.py lines 22-27), before any send();
\* expected_id and resp are the locals of send(), returned is the history of
\* what the last send() returned for which expected_id
NoTester == [cmd_id |-> 0, event_queue |-> <<>>, pc |-> "idle",
             expected_id |-> 0, arrived |-> <<>>,
             returned |-> [expected_id |-> 0, id |-> NoId, type |-> "none"]]

\* subscribe_events, line 474, before any _subscribe call; calls counts the
\* _subscribe calls, idx is the position of the reversed iterator, cmd the
\* identifier of the unsubscribe command awaited, attempted the history of
\* the subscriptions an unsubscribe was called for
NoSubs == [subscriptions |-> <<>>, calls |-> 0, pc |-> "test", idx |-> 0,
           cmd |-> 0, attempted |-> <<>>]

\* ---------------------------------------------- ScriptModule: the keys
\* a name is a string of characters: a lowercase letter, an uppercase letter
\* or the underscore
Chars == {"a", "A", "_"}
Upper(c) == IF c = "a" THEN "A" ELSE c
Lower(c) == IF c = "A" THEN "a" ELSE c

RECURSIVE StringsOf(_)
StringsOf(n) ==
    IF n = 0 THEN {<<>>}
    ELSE LET shorter == StringsOf(n - 1) IN
         shorter \cup {Append(str, c) : str \in shorter, c \in Chars}
Names == StringsOf(MaxNameLen) \ {<<>>}

\* lines 270-273, _to_camel_case: split at "_", keep the first component as
\* it is, title() the others (first character upper, the rest lower), join.
\* Character by character: first is TRUE up to the first "_", start is TRUE
\* right after a "_"
RECURSIVE CamelFrom(_, _, _)
CamelFrom(str, first, start) ==
    IF str = <<>> THEN <<>>
    ELSE IF Head(str) = "_" THEN CamelFrom(Tail(str), FALSE, TRUE)
    ELSE <<IF first THEN Head(str)
           ELSE IF start THEN Upper(Head(str)) ELSE Lower(Head(str))>>
         \o CamelFrom(Tail(str), first, FALSE)

ToCamelCase(snake_str) == CamelFrom(snake_str, TRUE, FALSE)

\* lines 251-256 and 281-286: the parameters of the call bound by name, as
\* the caller writes them, and the keys params starts with; "a" stands for a
\* one-word name (expression, target), "a_a" and "aA" for await_promise and
\* awaitPromise
ParameterNames == {<<"a">>, <<"a", "_", "a">>}
FixedKeys == {<<"a">>, <<"a", "A">>}

\* **kwargs: distinct names, none of them the name of a parameter, in the
\* order the caller wrote them; the value of an option is taken to be its name
OptionLists ==
    {opts \in UNION {[1..n -> Names \ ParameterNames] : n \in 0..MaxOptions} :
        \A a, b \in DOMAIN opts : a # b => opts[a] # opts[b]}

NoScript == [kwargs |-> <<>>, idx |-> 0,
             params |-> [key \in FixedKeys |-> <<"fixed">>], pc |-> "sent"]

\* everything but the ScriptModule call, as constructed
ApartFromScriptInit ==
    /\ tester = NoTester
    /\ subs = NoSubs
    /\ ws = 0
    /\ command_id = 0
    /\ pending = {}
    /\ futures = [i \in CmdIds |-> NoFuture]
    /\ event_listeners = [m \in {} |-> <<>>]
    /\ receive_task = 0
    /\ event_loop = FALSE
    /\ conns = [k \in TaskIds |-> "unborn"]
    /\ tasks = [k \in TaskIds |-> NoTask]
    /\ endpc = "idle"
    /\ endTask = 0
    /\ tokens = <<>>
    /\ last = NoRouting
    /\ raised = "none"
    /\ issued = <<>>
    /\ sendLog = [i \in CmdIds |-> NoSend]
    /\ atClose = {}
    /\ waits = <<>>

\* a call of evaluate or call_function with some keyword options, after
\* lines 252-256: params holds the fixed keys
ScriptInit ==
    /\ ApartFromScriptInit
    /\ \E opts \in OptionLists :
          script = [NoScript EXCEPT !.kwargs = opts, !.pc = "converting"]

\* lines 258-264: the next keyword option goes into params under its
\* camelCase key
ConvertOption ==
    /\ script.pc = "converting"
    /\ script.idx < Len(script.kwargs)
    /\ LET key == script.kwargs[script.idx + 1]
           camel_key == ToCamelCase(key) IN
       script' = [script EXCEPT !.idx = @ + 1,
                     !.params = [k \in DOMAIN @ \cup {camel_key} |->
                                   IF k = camel_key THEN key ELSE @[k]]]
    /\ UNCHANGED <<session, tester, subs>>

\* line 265: the kwargs are through, params is sent
SendParams ==
    /\ script.pc = "converting"
    /\ script.idx = Len(script.kwargs)
    /\ script' = [script EXCEPT !.pc = "sent"]
    /\ UNCHANGED <<session, tester, subs>>

ScriptNext ==
    \/ ConvertOption
    \/ SendParams

ScriptSpec == ScriptInit /\ [][ScriptNext]_vars

\* __init__, and no ScriptModule call under way
Init ==
    /\ script = NoScript
    /\ ApartFromScriptInit

\* the facade calls made so far that count against MaxCalls
Started == {k \in TaskIds : conns[k] # "unborn"}
Calls == Cardinality(Started) + command_id + Len(tokens)

\* the identifiers whose slot is in the table and still unresolved
Unresolved == {i \in pending : futures[i].state = "pending"}

\* lifecycle state of the session as the facade's callers see it
Phase ==
    IF endpc # "idle" THEN "stopping"
    ELSE IF ws # 0 THEN "running"
    ELSE IF event_loop THEN "stopped"
    ELSE "unstarted"

\* ------------------------------------------------------------ start()
\* lines 53-55: connect, remember the loop, create the receive task
Start ==
    /\ Calls < MaxCalls
    /\ LET k == Cardinality(Started) + 1 IN
       /\ conns' = [conns EXCEPT ![k] = "open"]
       /\ ws' = k
       /\ event_loop' = TRUE
       /\ receive_task' = k
       /\ tasks' = [tasks EXCEPT ![k] = [NoTask EXCEPT !.pc = "waiting"]]
    /\ last' = NoRouting
    /\ UNCHANGED <<apart, waits>>
    /\ raised' = "none"
    /\ UNCHANGED <<command_id, pending, futures, event_listeners, endpc,
                   endTask, tokens, issued, sendLog, atClose>>

\* ----------------------------------------------------- send_command()
\* a counter that starts over instead of growing
NextCommandIdWrapping(c) == IF c >= 2 THEN 1 ELSE c + 1

\* line 105: self._command_id += 1
NextCommandId(c) == c + 1

\* line 117: await self._ws.send(message) on the current self._ws
WriteOutcome ==
    IF ws = 0 THEN "AttributeError"
    ELSE IF conns[ws] = "open" THEN "returned"
    ELSE ConnectionClosedError

\* the insertion put off until the write has returned
InsertSlotAfterWrite(table, cmd_id) == table

\* lines 114-115: create the future and insert it under cmd_id
InsertSlot(table, cmd_id) == table \cup {cmd_id}

\* lines 103-118, no await before the write: one atomic step
SendCommandCall ==
    /\ Calls < MaxCalls
    /\ LET cmd_id == NextCommandId(command_id) IN
       /\ command_id' = cmd_id
       /\ issued' = Append(issued, cmd_id)
       /\ IF ~event_loop
          THEN \* line 114: None has no create_future
               /\ sendLog' = [sendLog EXCEPT ![cmd_id] =
                     [outcome |-> "AttributeError", at |-> "create_future",
                      phase |-> Phase]]
               /\ UNCHANGED <<pending, futures>>
          ELSE /\ futures' = [futures EXCEPT ![cmd_id] = NewFuture]
               /\ pending' = InsertSlot(pending, cmd_id)
               /\ sendLog' = [sendLog EXCEPT ![cmd_id] =
                     [outcome |-> WriteOutcome, at |-> "send", phase |-> Phase]]
    /\ last' = NoRouting
    /\ UNCHANGED <<tester, script, waits>>
    /\ raised' = "none"
    /\ UNCHANGED <<ws, event_listeners, receive_task, event_loop, conns,
                   tasks, endpc, endTask, tokens, atClose>>

\* a send_command call of the session's user
SendCommand == SendCommandCall /\ UNCHANGED subs

\* wait_for_future_safe: asyncio.wait_for cancels the future on timeout
CancelFuture(i) ==
    /\ i # subs.cmd   \* the future SessionModule.unsubscribe awaits is its own
    /\ sendLog[i].outcome = "returned"
    /\ futures[i].state = "pending"
    /\ futures' = [futures EXCEPT ![i] = [state |-> "cancelled", value |-> "none"]]
    /\ last' = NoRouting
    /\ UNCHANGED <<apart, waits>>
    /\ raised' = "none"
    /\ UNCHANGED <<ws, command_id, pending, event_listeners, receive_task,
                   event_loop, conns, tasks, endpc, endTask, tokens, issued,
                   sendLog, atClose>>

\* ------------------------------------------------- _receive_messages()
\* the type of the response ignored: every response taken for a success
OutcomeAlwaysResult(msg) == [state |-> "result", value |-> msg.body]

\* lines 79-87: the value the future of a response is resolved with
Outcome(msg) ==
    IF msg.type = "error"
    THEN [state |-> "exception", value |-> msg.body]
    ELSE [state |-> "result", value |-> msg.body]

\* the membership test left out: the pop is tried for every response
MatchesUnchecked(msg, table) == TRUE

\* line 77: if cmd_id in self._pending_commands
Matches(msg, table) == msg.id \in table

\* responses matched to the oldest outstanding command, whatever their id
PoppedIdOldest(msg, table) == CHOOSE i \in table : \A j \in table : i <= j

\* line 76: cmd_id = data["id"], the key the future is popped under
PoppedId(msg, table) == msg.id

\* the future looked up but left in the table
PopSlotKept(table, i) == table

\* line 78: self._pending_commands.pop(cmd_id)
PopSlot(table, i) == table \ {i}

\* a "method" key that takes precedence over the "id" key
IsResponseUnlessMethod(msg) == msg.id # NoId /\ msg.method = NoMethod

\* line 74: if "id" in data
IsResponse(msg) == msg.id # NoId

\* lines 74-87: a message with an "id" key
HandleResponse(k, msg) ==
    /\ IsResponse(msg)
    /\ IF Matches(msg, pending)
       THEN LET i == PoppedId(msg, pending) IN
            /\ pending' = PopSlot(pending, i)
            /\ IF futures[i].state = "pending"
               THEN /\ futures' = [futures EXCEPT ![i] = Outcome(msg)]
                    /\ last' = Routed("resolved", msg)
                    /\ UNCHANGED tasks
               ELSE \* set_result / set_exception raise InvalidStateError,
                    \* which neither except clause catches
                    /\ futures' = futures
                    /\ tasks' = [tasks EXCEPT ![k] =
                          [NoTask EXCEPT !.pc = "done", !.exit = "error"]]
                    /\ last' = Routed("failed", msg)
       ELSE /\ last' = Routed("stale", msg)
            /\ UNCHANGED <<pending, futures, tasks>>
    /\ UNCHANGED <<event_listeners, tokens, waits>>

\* a missing "method" key read as the name handlers are registered for
MethodOfDefaulted(msg) ==
    IF msg.method = NoMethod THEN CHOOSE e \in EventNames : TRUE ELSE msg.method

\* line 90: method = data.get("method")
MethodOf(msg) == msg.method

\* line 91: if method and method in self._event_listeners
HasListeners(msg, registry) ==
    MethodOf(msg) # NoMethod /\ MethodOf(msg) \in DOMAIN registry

\* list.remove(x): drop the first element equal to x
RECURSIVE RemoveFirst(_, _)
RemoveFirst(list, h) ==
    IF list = <<>> THEN <<>>
    ELSE IF Head(list) = h THEN Tail(list)
    ELSE <<Head(list)>> \o RemoveFirst(Tail(list), h)

\* x in list
Contains(list, h) == \E j \in 1..Len(list) : list[j] = h

\* lines 122-124
AddListener(registry, event_name, handler) ==
    IF event_name \in DOMAIN registry
    THEN [registry EXCEPT ![event_name] = Append(@, handler)]
    ELSE registry @@ (event_name :> <<handler>>)

\* lines 126-128: the closure remove()
RemoveListener(registry, event_name, handler) ==
    IF event_name \in DOMAIN registry /\ Contains(registry[event_name], handler)
    THEN [registry EXCEPT ![event_name] = RemoveFirst(@, handler)]
    ELSE registry

\* history: msg is the first event of its name read since the waits that are
\* still unresolved were handed out
Noted(wts, msg) ==
    [w \in DOMAIN wts |->
       IF /\ wts[w].event_name = msg.method /\ wts[w].first = "none"
          /\ wts[w].future.state = "pending"
       THEN [wts[w] EXCEPT !.first = msg.body] ELSE wts[w]]

\* line 95: handler(method, params) is called.  What a handler given to
\* add_event_listener does is its own business; on_event of wait_for_event
\* (lines 501-505, no await inside) calls its remove_listener and sets its
\* future, and a set_result that raises is caught at line 96
CallHandler(h, msg, registry, toks, wts) ==
    IF \E w \in DOMAIN wts : wts[w].handler = h
    THEN [registry |-> RemoveListener(registry, msg.method, h),
          toks |-> [t \in DOMAIN toks |->
                      IF toks[t].handler = h
                      THEN [toks[t] EXCEPT !.calls = @ + 1] ELSE toks[t]],
          wts |-> [w \in DOMAIN wts |->
                     IF wts[w].handler = h /\ wts[w].future.state = "pending"
                     THEN [wts[w] EXCEPT !.future =
                              [state |-> "result", value |-> msg.body]]
                     ELSE wts[w]]]
    ELSE [registry |-> registry, toks |-> toks, wts |-> wts]

\* lines 88-97: a message without "id"; the first handler is called without
\* an await in between, the following ones after the previous one returned
HandleEvent(k, msg) ==
    /\ ~IsResponse(msg)
    /\ IF HasListeners(msg, event_listeners)
          /\ event_listeners[MethodOf(msg)] # <<>>
       THEN LET list == event_listeners[MethodOf(msg)]
                data == [msg EXCEPT !.method = MethodOf(msg)]
                after == CallHandler(list[1], data, event_listeners, tokens,
                                     Noted(waits, msg))
            IN
            /\ tasks' = [tasks EXCEPT ![k].pc = "dispatching",
                           ![k].data = data,
                           ![k].idx = 1, ![k].snapshot = list,
                           ![k].invoked = <<list[1]>>]
            /\ event_listeners' = after.registry
            /\ tokens' = after.toks
            /\ waits' = after.wts
            /\ last' = Routed("event", msg)
       ELSE /\ last' = Routed(IF msg.method = NoMethod THEN "malformed"
                              ELSE "unhandled", msg)
            /\ waits' = Noted(waits, msg)
            /\ UNCHANGED <<tasks, event_listeners, tokens>>
    /\ UNCHANGED <<pending, futures>>

\* a loop that takes the next message while the handlers of the previous one
\* are still being awaited
AtNextMessageEager(task) == task.pc \in {"waiting", "dispatching"}

\* line 72: `async for message in self._ws` asks the connection for the next
\* message when the body of the loop is over for the previous one
AtNextMessage(task) == task.pc = "waiting"

\* the identifier of a response taken over as the session's counter
CounterAfterRoutingAdopted(c, msg) == IF msg.id # NoId THEN msg.id ELSE c

\* lines 73-97: the loop reads self._command_id nowhere and assigns it nowhere
\* (cmd_id of line 76 is a local), and it calls no self._ws.send
CounterAfterRouting(c, msg) == c

\* line 72: the loop resumes with the next message of its connection
Receive(k, msg) ==
    /\ AtNextMessage(tasks[k]) /\ ~tasks[k].cancelReq
    /\ conns[k] = "open"
    /\ \/ HandleResponse(k, msg)
       \/ HandleEvent(k, msg)
    /\ command_id' = CounterAfterRouting(command_id, msg)
    /\ UNCHANGED apart
    /\ raised' = "none"
    /\ UNCHANGED <<ws, receive_task, event_loop, conns, endpc, endTask,
                   issued, sendLog, atClose>>

\* lines 93-97: the awaited handler has returned, or has raised an Exception
\* that line 96 catches and line 97 prints; the list iterator yields the
\* element at its index, if any, of the list as it is now; past the end the
\* for loop is over
InvokeNext(k, exit) ==
    /\ tasks[k].pc = "dispatching" /\ ~tasks[k].cancelReq
    /\ LET list == event_listeners[tasks[k].data.method]
           i == tasks[k].idx IN
       IF i < Len(list)
       THEN LET after == CallHandler(list[i + 1], tasks[k].data,
                                     event_listeners, tokens, waits) IN
            /\ tasks' = [tasks EXCEPT ![k].idx = i + 1,
                           ![k].invoked = Append(@, list[i + 1])]
            /\ event_listeners' = after.registry
            /\ tokens' = after.toks
            /\ waits' = after.wts
       ELSE /\ tasks' = [tasks EXCEPT ![k] = [NoTask EXCEPT !.pc = "waiting"]]
            /\ UNCHANGED <<event_listeners, tokens, waits>>
    /\ last' = NoRouting
    /\ UNCHANGED apart
    /\ raised' = (IF exit = "returned" THEN "none" ELSE exit)
    /\ UNCHANGED <<ws, command_id, pending, futures, receive_task,
                   event_loop, conns, endpc, endTask, issued, sendLog, atClose>>

\* the peer closes the connection
PeerClose(k) ==
    /\ conns[k] = "open"
    /\ conns' = [conns EXCEPT ![k] = "closed"]
    /\ last' = NoRouting
    /\ UNCHANGED <<apart, waits>>
    /\ raised' = "none"
    /\ UNCHANGED <<ws, command_id, pending, futures, event_listeners,
                   receive_task, event_loop, tasks, endpc, endTask, tokens,
                   issued, sendLog, atClose>>

\* lines 98-99: except websockets.exceptions.ConnectionClosed: pass
OnConnectionClosed(table, futs) == futs

LoopClosed(k) ==
    /\ tasks[k].pc = "waiting" /\ ~tasks[k].cancelReq
    /\ conns[k] = "closed"
    /\ tasks' = [tasks EXCEPT ![k] = [NoTask EXCEPT !.pc = "done", !.exit = "closed"]]
    /\ futures' = OnConnectionClosed(pending, futures)
    /\ atClose' = atClose \cup Unresolved
    /\ last' = NoRouting
    /\ UNCHANGED <<apart, waits>>
    /\ raised' = "none"
    /\ UNCHANGED <<ws, command_id, pending, event_listeners, receive_task,
                   event_loop, conns, endpc, endTask, tokens, issued, sendLog>>

\* lines 100-101: except asyncio.CancelledError: pass
OnCancelled(table, futs) == futs

LoopCancelled(k) ==
    /\ tasks[k].pc \in {"waiting", "dispatching"} /\ tasks[k].cancelReq
    /\ tasks' = [tasks EXCEPT ![k] = [NoTask EXCEPT !.pc = "done", !.exit = "cancelled"]]
    /\ futures' = OnCancelled(pending, futures)
    /\ last' = NoRouting
    /\ UNCHANGED <<apart, waits>>
    /\ raised' = "none"
    /\ UNCHANGED <<ws, command_id, pending, event_listeners, receive_task,
                   event_loop, conns, endpc, endTask, tokens, issued, sendLog,
                   atClose>>

\* -------------------------------------------------------------- end()
\* lines 65-66: if self._ws: await self._ws.close()
EndCloseWs ==
    IF ws # 0
    THEN /\ conns' = [conns EXCEPT ![ws] = "closed"]
         /\ endpc' = "closeWs"
    ELSE /\ endpc' = "idle"
         /\ UNCHANGED conns

\* a cancel() that is not delivered to the suspended task
CancelNotDelivered(task) == task

\* line 60: self._receive_task.cancel(); a task that is done is left alone,
\* any other gets CancelledError thrown in at the await it is suspended in
Cancel(task) == [task EXCEPT !.cancelReq = (task.pc # "done")]

\* lines 59-62: cancel the receive task and await it
EndBegin ==
    /\ endpc = "idle"
    /\ IF receive_task # 0
       THEN /\ tasks' = [tasks EXCEPT ![receive_task] = Cancel(@)]
            /\ endTask' = receive_task
            /\ endpc' = "awaitTask"
            /\ UNCHANGED conns
       ELSE /\ EndCloseWs
            /\ UNCHANGED <<tasks, endTask>>
    /\ last' = NoRouting
    /\ UNCHANGED <<apart, waits>>
    /\ raised' = "none"
    /\ UNCHANGED <<ws, command_id, pending, futures, event_listeners,
                   receive_task, event_loop, tokens, issued, sendLog, atClose>>

\* lines 62-66: the awaited task is done; an exception it ended with (other
\* than CancelledError) is raised out of end() before the close
EndAfterTask ==
    /\ endpc = "awaitTask"
    /\ tasks[endTask].pc = "done"
    /\ IF tasks[endTask].exit = "error"
       THEN /\ endpc' = "idle"
            /\ UNCHANGED conns
       ELSE EndCloseWs
    /\ endTask' = 0
    /\ last' = NoRouting
    /\ UNCHANGED <<apart, waits>>
    /\ raised' = "none"
    /\ UNCHANGED <<ws, command_id, pending, futures, event_listeners,
                   receive_task, event_loop, tasks, tokens, issued, sendLog, atClose>>

\* line 67: self._ws = None
EndFinish ==
    /\ endpc = "closeWs"
    /\ ws' = 0
    /\ endpc' = "idle"
    /\ last' = NoRouting
    /\ UNCHANGED <<apart, waits>>
    /\ raised' = "none"
    /\ UNCHANGED <<command_id, pending, futures, event_listeners,
                   receive_task, event_loop, conns, tasks, endTask, tokens,
                   issued, sendLog, atClose>>

\* ----------------------------------------------- add_event_listener()
\* lines 120-130; handlers are named in the order they first appear
AddEventListener(event_name, handler) ==
    /\ Calls < MaxCalls
    /\ \E n \in 1..Len(HandlerOrder) :
          /\ HandlerOrder[n] = handler
          /\ \A m \in 1..(n - 1) : \E t \in 1..Len(tokens) :
                tokens[t].handler = HandlerOrder[m]
    /\ event_listeners' = AddListener(event_listeners, event_name, handler)
    /\ tokens' = Append(tokens, [event_name |-> event_name,
                                 handler |-> handler, calls |-> 0])
    /\ last' = NoRouting
    /\ UNCHANGED <<apart, waits>>
    /\ raised' = "none"
    /\ UNCHANGED <<ws, command_id, pending, futures, receive_task, event_loop,
                   conns, tasks, endpc, endTask, issued, sendLog, atClose>>

\* wait_for_event, lines 497-508: a future, and a handler of its own
\* registered for event_name; the handlers are named in the order of the calls
Waiters == <<"W1", "W2", "W3", "W4">>

WaitForEvent(event_name) ==
    /\ Calls < MaxCalls
    /\ Len(waits) < Len(Waiters)
    /\ LET on_event == Waiters[Len(waits) + 1] IN
       /\ event_listeners' = AddListener(event_listeners, event_name, on_event)
       /\ tokens' = Append(tokens, [event_name |-> event_name,
                                    handler |-> on_event, calls |-> 0])
       /\ waits' = Append(waits, [event_name |-> event_name,
                                  handler |-> on_event, future |-> NewFuture,
                                  first |-> "none"])
    /\ last' = NoRouting
    /\ raised' = "none"
    /\ UNCHANGED apart
    /\ UNCHANGED <<ws, command_id, pending, futures, receive_task, event_loop,
                   conns, tasks, endpc, endTask, issued, sendLog, atClose>>

\* a call of the t-th token returned by add_event_listener (the tokens of
\* wait_for_event stay inside the fixture)
CallRemove(t) ==
    /\ tokens[t].handler \in Handlers
    /\ tokens[t].calls < MaxTokenCalls
    /\ event_listeners' = RemoveListener(event_listeners, tokens[t].event_name,
                                         tokens[t].handler)
    /\ tokens' = [tokens EXCEPT ![t].calls = @ + 1]
    /\ last' = NoRouting
    /\ UNCHANGED <<apart, waits>>
    /\ raised' = "none"
    /\ UNCHANGED <<ws, command_id, pending, futures, receive_task, event_loop,
                   conns, tasks, endpc, endTask, issued, sendLog, atClose>>

\* ------------------------------------- BidiTester (test-bidi-manual.py)
\* json.loads(raw): the keys send() reads; the peer sends what it likes
TesterMessages == [id : {NoId} \cup (1..MaxSends),
                   type : {"event", "success", "error"}, body : Payloads]

\* lines 37-40: count up, build the message and write it; the call then waits
\* in self.ws.recv()
TesterSend ==
    /\ tester.pc = "idle"
    /\ tester.cmd_id < MaxSends
    /\ tester' = [tester EXCEPT !.cmd_id = @ + 1, !.expected_id = tester.cmd_id + 1,
                                !.pc = "receiving"]
    /\ UNCHANGED <<session, subs, script>>

\* lines 56-60: if "id" in resp: return resp
ReturnsUnmatched(resp) == resp.id # NoId

\* lines 43-60: one turn of the while loop of send()
TesterRecv(resp) ==
    /\ tester.pc = "receiving"
    /\ IF resp.type = "event"
       THEN \* lines 48-50
            /\ Len(tester.event_queue) < MaxQueue
            /\ tester' = [tester EXCEPT !.event_queue = Append(@, resp),
                                        !.arrived = Append(@, resp)]
       ELSE IF resp.id = tester.expected_id \/ ReturnsUnmatched(resp)
       THEN \* lines 53-54 and 58-60: return resp
            tester' = [tester EXCEPT !.pc = "idle",
                          !.returned = [expected_id |-> tester.expected_id,
                                        id |-> resp.id, type |-> resp.type]]
       ELSE \* neither: the loop goes round
            tester' = tester
    /\ UNCHANGED <<session, subs, script>>

TesterNext ==
    \/ TesterSend
    \/ \E resp \in TesterMessages : TesterRecv(resp)

TesterSpec == Init /\ [][TesterNext]_vars

\* ------------------------------------------- subscribe_events fixture
\* lines 476-482: one _subscribe call.  The round trip of session.subscribe
\* is taken as done; its result carries the subscription id the server
\* issued (the number of the call) or no "subscription" key
Subscribe(recorded) ==
    /\ subs.pc = "test"
    /\ subs.calls < MaxSubs
    /\ subs' = [subs EXCEPT !.calls = @ + 1,
                            !.subscriptions =
                               IF recorded THEN Append(@, subs.calls + 1) ELSE @]
    /\ UNCHANGED <<session, tester, script>>

\* line 486: reversed(subscriptions) starts at the last element
TeardownBegin ==
    /\ subs.pc = "test"
    /\ subs' = [subs EXCEPT !.pc = "teardown", !.idx = Len(subs.subscriptions)]
    /\ UNCHANGED <<session, tester, script>>

\* lines 486-488 and 238-243: the next sub of the reversed list;
\* session.unsubscribe sends the command and awaits its future, unless
\* send_command raises, which line 489 catches
TeardownUnsubscribe ==
    /\ subs.pc = "teardown"
    /\ subs.idx > 0
    /\ SendCommandCall
    /\ LET sub == subs.subscriptions[subs.idx] IN
       IF sendLog'[command_id'].outcome = "returned"
       THEN subs' = [subs EXCEPT !.pc = "awaiting", !.cmd = command_id',
                                !.attempted = Append(@, sub)]
       ELSE subs' = [subs EXCEPT !.idx = @ - 1, !.attempted = Append(@, sub)]
    /\ UNCHANGED script

\* lines 244 and 488-490: the awaited future holds a result, or an exception
\* that line 489 catches; the for loop goes on
TeardownResume ==
    /\ subs.pc = "awaiting"
    /\ futures[subs.cmd].state \in {"result", "exception"}
    /\ subs' = [subs EXCEPT !.pc = "teardown", !.idx = @ - 1, !.cmd = 0]
    /\ UNCHANGED <<session, tester, script>>

\* the reversed iterator is exhausted
TeardownEnd ==
    /\ subs.pc = "teardown"
    /\ subs.idx = 0
    /\ subs' = [subs EXCEPT !.pc = "done"]
    /\ UNCHANGED <<session, tester, script>>

\* ------------------------------------------------------- specification
Next ==
    \/ Start
    \/ SendCommand
    \/ \E i \in CmdIds : CancelFuture(i)
    \/ \E k \in TaskIds, msg \in Messages : Receive(k, msg)
    \/ \E k \in TaskIds, exit \in HandlerExits : InvokeNext(k, exit)
    \/ \E k \in TaskIds : PeerClose(k)
    \/ \E k \in TaskIds : LoopClosed(k)
    \/ \E k \in TaskIds : LoopCancelled(k)
    \/ EndBegin
    \/ EndAfterTask
    \/ EndFinish
    \/ \E e \in EventNames, h \in Handlers : AddEventListener(e, h)
    \/ \E t \in 1..Len(tokens) : CallRemove(t)

Spec == Init /\ [][Next]_vars

\* the same session where the payload of a message is of no account: the
\* peer sends one payload only, and also sends responses that carry a
\* "method" key
TaggedMessages == {msg \in Messages : msg.body = "p1"} \cup TaggedResponses

TaggedNext ==
    \/ Start
    \/ SendCommand
    \/ \E i \in CmdIds : CancelFuture(i)
    \/ \E k \in TaskIds, msg \in TaggedMessages : Receive(k, msg)
    \/ \E k \in TaskIds, exit \in HandlerExits : InvokeNext(k, exit)
    \/ \E k \in TaskIds : PeerClose(k)
    \/ \E k \in TaskIds : LoopClosed(k)
    \/ \E k \in TaskIds : LoopCancelled(k)
    \/ EndBegin
    \/ EndAfterTask
    \/ EndFinish
    \/ \E e \in EventNames, h \in Handlers : AddEventListener(e, h)
    \/ \E t \in 1..Len(tokens) : CallRemove(t)

TaggedSpec == Init /\ [][TaggedNext]_vars

\* the same session used through the wait_for_event fixture as well
WaitNext ==
    \/ Next
    \/ \E e \in EventNames : WaitForEvent(e)

WaitSpec == Init /\ [][WaitNext]_vars

\* the same session used through the subscribe_events fixture as well
SubsNext ==
    \/ Next
    \/ \E recorded \in BOOLEAN : Subscribe(recorded)
    \/ TeardownBegin
    \/ TeardownUnsubscribe
    \/ TeardownResume
    \/ TeardownEnd

SubsSpec == Init /\ [][SubsNext]_vars

\* the fixture's teardown under the scheduling of FairSpec and a server that
\* answers: the response of an unresolved command is read whenever a loop
\* comes back, again and again, to reading its connection
SubsFairSpec ==
    /\ SubsSpec
    /\ SF_vars(\E k \in TaskIds, msg \in Responses :
                  msg.id \in Unresolved /\ Receive(k, msg))
    /\ \A k \in TaskIds : WF_vars(\E exit \in HandlerExits : InvokeNext(k, exit))
    /\ \A k \in TaskIds : WF_vars(LoopClosed(k))
    /\ \A k \in TaskIds : WF_vars(LoopCancelled(k))
    /\ WF_vars(EndAfterTask)
    /\ WF_vars(EndFinish)
    /\ WF_vars(TeardownResume)

\* the asyncio loop runs every task that is ready: the receive task and a
\* started end() call always get their next step, and every handler ends;
\* messages, peer closure and the callers' calls are the environment's, with
\* no fairness
FairSpec ==
    /\ Spec
    /\ \A k \in TaskIds : WF_vars(\E exit \in HandlerExits : InvokeNext(k, exit))
    /\ \A k \in TaskIds : WF_vars(LoopClosed(k))
    /\ \A k \in TaskIds : WF_vars(LoopCancelled(k))
    /\ WF_vars(EndAfterTask)
    /\ WF_vars(EndFinish)

\* the same scheduling with a server that answers: the response of an
\* unresolved command is read whenever a loop comes back, again and again, to
\* reading its connection; a handler, though, need not end
AnsweringSpec ==
    /\ Spec
    /\ SF_vars(\E k \in TaskIds, msg \in Responses :
                  msg.id \in Unresolved /\ Receive(k, msg))
    /\ \A k \in TaskIds : WF_vars(LoopClosed(k))
    /\ \A k \in TaskIds : WF_vars(LoopCancelled(k))
    /\ WF_vars(EndAfterTask)
    /\ WF_vars(EndFinish)

\* the same session where neither the payload of a message nor the type of
\* a response is of any account
StopMessages == {msg \in Messages : msg.body = "p1" /\ msg.type # "error"}

StopNext ==
    \/ Start
    \/ SendCommand
    \/ \E i \in CmdIds : CancelFuture(i)
    \/ \E k \in TaskIds, msg \in StopMessages : Receive(k, msg)
    \/ \E k \in TaskIds, exit \in HandlerExits : InvokeNext(k, exit)
    \/ \E k \in TaskIds : PeerClose(k)
    \/ \E k \in TaskIds : LoopClosed(k)
    \/ \E k \in TaskIds : LoopCancelled(k)
    \/ EndBegin
    \/ EndAfterTask
    \/ EndFinish
    \/ \E e \in EventNames, h \in Handlers : AddEventListener(e, h)
    \/ \E t \in 1..Len(tokens) : CallRemove(t)

\* the least the asyncio loop does for a stop: a cancelled receive task and
\* a started end() call get their next step; no message need arrive, no
\* handler need end and no caller need call again
StoppingSpec ==
    /\ Init /\ [][StopNext]_vars
    /\ WF_vars(/\ endpc # "idle"
               /\ \/ endTask # 0 /\ LoopCancelled(endTask)
                  \/ EndAfterTask
                  \/ EndFinish)

\* ---------------------------------------------------------------- claims
Resolved(i) == futures[i].state \in {"result", "exception"}

\* the step is a loop reading a message (Receive is the only action that
\* sets last to anything but NoRouting)
ReadStep == last'.kind # "none"

\* C1: the identifiers send_command assigns are pairwise distinct and strictly
\* increasing in the order of the calls, whatever happened in between
\* (responses, stop, failed sends).
C1_IdsStrictlyIncreasing ==
    \A a, b \in 1..Len(issued) : a < b => issued[a] < issued[b]

\* an identifier assigned after a response resolved the first one and after
\* the session was stopped
C1_Witness ==
    /\ Len(issued) = 2
    /\ futures[1].state = "result"
    /\ sendLog[2].phase = "stopped"

\* C2: a future that a response has resolved never changes again, and a
\* further response with the same identifier is discarded: reading it changes
\* no future and no table entry, and every loop is where it was.
C2_AtMostOnceResolution ==
    [][ /\ \A i \in CmdIds : Resolved(i) => futures'[i] = futures[i]
        /\ (ReadStep /\ last'.id # NoId /\ Resolved(last'.id)) =>
              /\ futures' = futures
              /\ pending' = pending
              /\ tasks' = tasks ]_vars

\* a second response for identifier 1 has been read after 1 was resolved,
\* while identifier 2 is still outstanding
C2_Witness ==
    /\ Resolved(1)
    /\ 2 \in Unresolved
    /\ last.kind = "stale" /\ last.id = 1

\* C3: a response for an outstanding identifier resolves the future of that
\* identifier with that response's payload, whatever other identifiers are
\* outstanding and in whatever order the responses come; every other future
\* and table entry is left alone and the loop goes on waiting.
C3_OutOfOrderTolerance ==
    [][ (ReadStep /\ last'.id \in Unresolved) =>
          \A k \in TaskIds, msg \in Responses :
             (msg.id = last'.id /\ Receive(k, msg)) =>
                /\ futures'[msg.id].value = msg.body
                /\ futures'[msg.id].state =
                      (IF msg.type = "error" THEN "exception" ELSE "result")
                /\ \A j \in CmdIds \ {msg.id} : futures'[j] = futures[j]
                /\ pending' = pending \ {msg.id}
                /\ tasks'[k].pc = "waiting" ]_vars

\* A then B issued, B answered first (p2), A answered last (p1)
C3_Witness ==
    /\ futures[2] = [state |-> "result", value |-> "p2"]
    /\ futures[1] = [state |-> "result", value |-> "p1"]
    /\ last.kind = "resolved" /\ last.id = 1

\* C4: once end() has returned, no command that was written while the
\* session was running is still unresolved.
C4_StopDrainsPending ==
    Phase = "stopped" =>
       \A i \in CmdIds :
          (sendLog[i].phase = "running" /\ sendLog[i].outcome = "returned")
             => futures[i].state # "pending"

\* no _receive_messages task is reading a connection
NoLoopRunning == \A k \in TaskIds : tasks[k].pc \notin {"waiting", "dispatching"}

\* C5: every command that is unresolved in the table when the loop ends by
\* connection closure is eventually resolved (stated for the commands that
\* were written to the connection, in the sessions that are left without any
\* running loop).
C5_ClosureDrainsPending ==
    \A i \in CmdIds :
       (i \in atClose /\ sendLog[i].outcome = "returned" /\ NoLoopRunning)
          ~> (futures[i].state # "pending")

\* C6: after a send_command whose write failed, the slot of its identifier is
\* out of the table and its future holds the error.
C6_FailedWriteReleasesSlot ==
    \A i \in CmdIds :
       (sendLog[i].at = "send" /\ sendLog[i].outcome # "returned")
          => (i \notin pending /\ futures[i].state = "exception")

\* C7: a send_command call made while the session is not running fails: it
\* returns no future (the claim wants a session-not-active error on top).
C7_InactiveSendFails ==
    \A i \in CmdIds :
       sendLog[i].phase \in {"unstarted", "stopping", "stopped"}
          => sendLog[i].outcome \notin {"returned"}

\* C8: when the dispatch of one event is over, the handlers invoked are the
\* handlers that were registered when it was delivered, each once, in
\* registration order.
C8_FanOutInRegistrationOrder ==
    [][ \A k \in TaskIds :
          (tasks[k].pc = "dispatching" /\ tasks'[k].pc = "waiting")
             => tasks[k].invoked = tasks[k].snapshot ]_vars

\* C9: a call of a removal token that has been called before leaves the
\* registry as it is.
C9_SecondRemoveIsNoOp ==
    [][ \A t \in 1..Len(tokens) :
          (tokens[t].calls >= 1 /\ tokens'[t].calls = tokens[t].calls + 1)
             => event_listeners' = event_listeners ]_vars

\* a response whose identifier is not in the table, or an event whose method
\* has no handler registered (msg: a message or the record of one in last)
Unmatched(msg) ==
    IF msg.id # NoId THEN msg.id \notin pending
    ELSE /\ msg.method # NoMethod
         /\ \/ msg.method \notin DOMAIN event_listeners
            \/ event_listeners[msg.method] = <<>>

\* C10: reading an unmatched message changes neither the table, nor any
\* future, nor the registry, and every loop is where it was: the reading one
\* goes on waiting for the next message.
C10_UnmatchedIsNoOp ==
    [][ (ReadStep /\ Unmatched(last')) =>
          /\ pending' = pending
          /\ futures' = futures
          /\ event_listeners' = event_listeners
          /\ tasks' = tasks ]_vars

\* a response with an unknown identifier has been read while a command is
\* outstanding and a handler is registered
C10_Witness ==
    /\ Unresolved # {}
    /\ \E e \in DOMAIN event_listeners : event_listeners[e] # <<>>
    /\ \E k \in TaskIds :
          /\ tasks[k].pc = "waiting"
          /\ last.kind = "stale"
          /\ last.id \notin pending

\* C11: when a handler raises, the loop goes on with the pass: the next handler
\* that was registered when the event was delivered is invoked, the loop does
\* not end, and no future and no table entry is touched.
C11_HandlerIsolation ==
    [][ \A k \in TaskIds :
          (tasks[k].pc = "dispatching" /\ tasks'[k] # tasks[k]
             /\ raised' = "Exception") =>
             LET done == Len(tasks[k].invoked) IN
             /\ futures' = futures
             /\ pending' = pending
             /\ IF done < Len(tasks[k].snapshot)
                THEN /\ tasks'[k].pc = "dispatching"
                     /\ tasks'[k].invoked =
                           Append(tasks[k].invoked, tasks[k].snapshot[done + 1])
                ELSE tasks'[k].pc \in {"waiting", "dispatching"} ]_vars

\* C12: whenever send_command has got as far as the write for an identifier,
\* the slot of that identifier is in the table for as long as its future is
\* unresolved, so a response read after the write finds it.
C12_SlotBeforeWrite ==
    \A i \in CmdIds :
       (sendLog[i].at = "send" /\ futures[i].state = "pending") => i \in pending

\* the response of a written command has been read and has found the slot,
\* while another written command still waits in the table
C12_Witness ==
    /\ last.kind = "resolved"
    /\ sendLog[last.id].outcome = "returned"
    /\ \E j \in Unresolved : sendLog[j].outcome = "returned"

\* C13: a dispatch loop that has ended has ended because its connection
\* signalled closure or because stop cancelled it; reading a message never
\* ends it.
C13_LoopEndsOnlyByClosureOrStop ==
    \A k \in TaskIds :
       tasks[k].pc = "done" => tasks[k].exit \in {"closed", "cancelled"}

\* C14: a response whose identifier is pending resolves the future of that
\* identifier and no other: with an exception carrying the server's error
\* details when its type is "error", with its result payload otherwise.
C14_ErrorOrResultByType ==
    [][ (ReadStep /\ last'.id \in Unresolved) =>
          LET i == last'.id IN
          /\ \A k \in TaskIds, msg \in Responses :
                (msg.id = i /\ Receive(k, msg)) =>
                   /\ msg.type = "error" =>
                         futures'[i] = [state |-> "exception", value |-> msg.body]
                   /\ msg.type # "error" =>
                         futures'[i] = [state |-> "result", value |-> msg.body]
          /\ \A j \in CmdIds \ {i} : futures'[j] = futures[j] ]_vars

\* an error response has resolved identifier 1 with its error details while
\* identifier 2 stays unresolved in the table
C14_Witness ==
    /\ last.kind = "resolved" /\ last.id = 1
    /\ futures[1] = [state |-> "exception", value |-> "p2"]
    /\ 2 \in Unresolved

\* what a session is made of: connection, dispatch tasks, table and registry
SessionState ==
    <<ws, conns, receive_task, tasks, command_id, pending, futures,
      event_listeners>>

\* a stop has gone through: the connection is released and the dispatch task
\* of the session has ended
AlreadyStopped ==
    /\ ws = 0 /\ event_loop
    /\ receive_task # 0 /\ tasks[receive_task].pc = "done"

\* C15: every step of an end() call made on a session that is already stopped
\* leaves the session state as it is, and the call returns without raising.
C15_EndIdempotent ==
    [][ (AlreadyStopped /\ endpc' # endpc) =>
          /\ SessionState' = SessionState
          /\ endpc = "awaitTask" =>
                (endpc' = "idle" /\ tasks[endTask].exit # "error") ]_vars

\* C16: a session has at most one open connection and at most one dispatch
\* loop at any time: start() on a started session opens and launches nothing.
C16_SingleConnectionAndLoop ==
    /\ Cardinality({k \in TaskIds : conns[k] = "open"}) <= 1
    /\ Cardinality({k \in TaskIds :
                       tasks[k].pc \in {"waiting", "dispatching"}}) <= 1

\* C17: a dispatch pass invokes the handlers that were registered when it
\* began, one after the other: as long as one of them is left, the loop
\* resumes by invoking the next one of them, whatever was removed from or
\* added to the registry in the meantime.
C17_NoRegisteredHandlerSkipped ==
    [][ \A k \in TaskIds, exit \in HandlerExits :
          (InvokeNext(k, exit)
             /\ Len(tasks[k].invoked) < Len(tasks[k].snapshot)) =>
             /\ tasks'[k].pc = "dispatching"
             /\ tasks'[k].invoked =
                   Append(tasks[k].invoked,
                          tasks[k].snapshot[Len(tasks[k].invoked) + 1]) ]_vars

\* the handlers of the registrations for event_name whose token has not been
\* called, in registration order
RECURSIVE LiveRegistrations(_, _)
LiveRegistrations(toks, event_name) ==
    IF toks = <<>> THEN <<>>
    ELSE (IF Head(toks).event_name = event_name /\ Head(toks).calls = 0
          THEN <<Head(toks).handler>> ELSE <<>>)
         \o LiveRegistrations(Tail(toks), event_name)

\* C18: a token detaches the registration it was returned for and no other:
\* as long as no token has been called twice, the list of a method holds the
\* registrations whose token has not been called, in registration order.
C18_TokenDetachesItsOwnRegistration ==
    (\A t \in 1..Len(tokens) : tokens[t].calls <= 1) =>
       \A e \in DOMAIN event_listeners :
          event_listeners[e] = LiveRegistrations(tokens, e)

\* a dispatch loop is alive on an open connection and has not been cancelled
LoopAlive ==
    \E k \in TaskIds :
       /\ tasks[k].pc \in {"waiting", "dispatching"}
       /\ conns[k] = "open" /\ ~tasks[k].cancelReq

\* C19: a command that is outstanding while a handler is executing is
\* resolved in the end, whether the handler returns or not, unless the
\* connection is closed or the loop stopped first.
C19_HandlerNeverBlocksResolution ==
    \A i \in CmdIds :
       (/\ i \in Unresolved /\ sendLog[i].outcome = "returned"
        /\ \E k \in TaskIds : tasks[k].pc = "dispatching")
          ~> (futures[i].state # "pending" \/ ~LoopAlive)

\* C20: end() closes the connection only after the dispatch loop it has
\* cancelled has finished: at the step in which end() closes a connection, the
\* loop reading that connection (task k reads connection k) has ended.
C20_CloseAfterLoopFinished ==
    [][ (endpc # "closeWs" /\ endpc' = "closeWs") =>
          tasks[ws].pc = "done" ]_vars

\* C21: an end() call that waits for a dispatch loop suspended in the wait for
\* the next message returns, whether or not a message ever arrives again.
C21_EndTerminatesWithoutMessage ==
    (endpc = "awaitTask" /\ tasks[endTask].pc = "waiting") ~> (endpc = "idle")

\* end() has returned after cancelling a loop that was waiting for the
\* response of a written command, which never arrived
C21_Witness ==
    /\ endpc = "idle" /\ ws = 0
    /\ receive_task # 0 /\ tasks[receive_task].exit = "cancelled"
    /\ \E i \in Unresolved : sendLog[i].outcome = "returned"

\* C22: a loop routes the messages of its connection one after the other: as
\* long as the handlers of an event are being invoked, the loop reads no
\* further message (so resolves no future and starts no other pass), and the
\* handlers it goes on invoking are invoked for that same event.
C22_RoutedInArrivalOrder ==
    [][ \A k \in TaskIds :
          tasks[k].pc = "dispatching" =>
             /\ ReadStep => \A msg \in Messages \cup TaggedResponses :
                            ~Receive(k, msg)
             /\ tasks'[k].pc = "dispatching" =>
                   /\ tasks'[k].data = tasks[k].data
                   /\ tasks'[k].snapshot = tasks[k].snapshot ]_vars

\* a handler of an event is being awaited while the connection is open and a
\* written command waits for its response, which is read only after the pass
C22_Witness ==
    \E k \in TaskIds :
       /\ tasks[k].pc = "dispatching" /\ conns[k] = "open"
       /\ ~tasks[k].cancelReq
       /\ \E i \in Unresolved : sendLog[i].outcome = "returned"

\* C23: the "id" key alone decides the routing: reading a message that has
\* one invokes no handler, whatever "method" it carries and whatever is
\* registered for it, and reading a message that has none changes neither the
\* pending table nor any future.
C23_IdIsSoleDiscriminant ==
    [][ ReadStep =>
          IF last'.id # NoId
          THEN /\ last'.kind \in {"resolved", "failed", "stale"}
               /\ \A k \in TaskIds : /\ tasks'[k].invoked = tasks[k].invoked
                                     /\ tasks'[k].pc # "dispatching"
                                           \/ tasks'[k] = tasks[k]
          ELSE /\ last'.kind \in {"event", "unhandled", "malformed"}
               /\ pending' = pending
               /\ futures' = futures ]_vars

\* a response that carries the method of a registered handler has resolved
\* its command, and no loop is invoking a handler
C23_Witness ==
    /\ last.kind = "resolved"
    /\ last.method \in DOMAIN event_listeners
    /\ event_listeners[last.method] # <<>>
    /\ \A k \in TaskIds : tasks[k].pc # "dispatching"

C25_TableHoldsOnlyUnresolved ==
    \A i \in pending : futures[i].state = "pending"

\* the commands written to a connection, by identifier
Written == {i \in CmdIds : sendLog[i].outcome = "returned"}

\* C26: a loop that reads a message, whatever the message, writes nothing to
\* the connection and leaves the identifier counter as it is; a step that
\* writes a command or moves the counter is a send_command call.
C26_LoopOnlyReads ==
    [][ /\ ReadStep => /\ command_id' = command_id
                       /\ Written' = Written
                       /\ issued' = issued
        /\ (command_id' # command_id \/ Written' # Written) => SendCommand ]_vars

\* a message has been read after two commands were written
C26_Witness ==
    /\ last.kind # "none"
    /\ command_id = 2
    /\ Written = {1, 2}

\* C27: what a BidiTester.send call returns is the response that carries the
\* identifier of the command it sent, and the events received are in
\* event_queue in the order they came in.
C27_SendReturnsItsOwnResponse ==
    /\ tester.returned.id # NoId =>
          tester.returned.id = tester.returned.expected_id
    /\ tester.event_queue = tester.arrived

\* C28: a future of wait_for_event that is resolved holds the params of the
\* first event of its name read after it was handed out, and its listener is
\* out of the registry from then on.
C28_ResolvedByFirstMatchingEvent ==
    \A w \in DOMAIN waits :
       waits[w].future.state = "result" =>
          /\ waits[w].first # "none" => waits[w].future.value = waits[w].first
          /\ ~Contains(event_listeners[waits[w].event_name], waits[w].handler)

\* the last n elements of a list, last one first
LastFirst(list, n) == [j \in 1..n |-> list[Len(list) + 1 - j]]

\* C29: the teardown of subscribe_events calls unsubscribe for the recorded
\* subscription ids last one first, each once, all of them by the time it is
\* over; and an unsubscribe it waits for comes back, with a result or with a
\* failure, so that the remaining ones get their turn.
C29_TeardownUnsubscribesAllLastFirst ==
    /\ [](/\ subs.attempted = LastFirst(subs.subscriptions, Len(subs.attempted))
          /\ subs.pc = "done" => Len(subs.attempted) = Len(subs.subscriptions))
    /\ (subs.pc = "awaiting") ~> (subs.pc # "awaiting")

\* C30: in the params a ScriptModule call sends, every keyword option is
\* there under its own key, with its own value, and the fixed keys hold what
\* the call put there: no two option names share a camelCase key, and none
\* takes the key of expression, target or awaitPromise.
C30_KeyTransformIsReversible ==
    script.pc = "sent" =>
       /\ \A n \in DOMAIN script.kwargs :
             script.params[ToCamelCase(script.kwargs[n])] = script.kwargs[n]
       /\ \A key \in FixedKeys : script.params[key] = <<"fixed">>

====
